---- MODULE Spec2Model ----
(***************************************************************************)
(* Model of cs-homework-site's tools:                                      *)
(*   tools/agent_generate.py  topic selection and the generate step        *)
(*   tools/topic_expand.py    topic bank expansion                         *)
(*   tools/unify_pages.py     page unification and related posts           *)
(*                                                                         *)
(* Representation of Python values:                                        *)
(*   Optional[X]     <<>> for None, <<x>> for a value                      *)
(*   dict            a record; a key the dict lacks is absent from DOMAIN  *)
(*   str (suggestion, title_hint and filename in topic_expand.py)          *)
(*                   a sequence of tokens: words, " " (one whitespace      *)
(*                   character) and punctuation marks.  The words used are *)
(*                   chosen so that none holds a keyword of the source as  *)
(*                   a proper substring: `kw in t` is then "kw occurs as a *)
(*                   run of tokens of t".  A filename is the sequence of   *)
(*                   the words that "-" joins, ".html" left implicit.      *)
(*   str (filename, title in the selector and the corpus)                  *)
(*                   the sequence of its code points, so that Python's     *)
(*                   string order is the lexicographic order of sequences; *)
(*                   the common ".html" suffix is kept as its first code   *)
(*                   point 46 ('.')                                        *)
(***************************************************************************)
EXTENDS Integers, Sequences, FiniteSets, TLC

VARIABLES
    bank,       \* agent_generate.main: the list load_topic_bank() returned
    pages,      \* the *.html files of the site root
    topic,      \* agent_generate.main: pick_next_topic's result (Optional)
    pc,         \* agent_generate.main: the step the run is at
    reply,      \* what the Generation Service answered in this run (Optional)
    bankFile,   \* topic_bank_auto.json: <<>> when missing or not JSON, else <<list>>
    loaded,     \* expand_bank: the list load_existing_bank() returned (local `bank`)
    responses,  \* what the suggestion source answers to each seed's query
    added,      \* expand_bank: len(new_items), as printed
    newItems,   \* expand_bank: the list new_items when the call ended
    result,     \* how the last expand_bank call ended: "none", "ok", "raised"
    articles,   \* unify_pages: the list load_articles() returned
    path,       \* unify_all_pages: the name of the page file at hand
    html,       \* the text of that page file
    links,      \* the related posts rendered into that page file
    rel,        \* related_for's result for the page
    siteBase,   \* the SITE_BASE environment variable ("" when unset)
    passes,     \* how many times unify_all_pages has run
    outcome     \* how the last run ended: "none", "ok", "raised", "related"

selVars == <<bank, pages, topic, pc, reply>>

expVars == <<bankFile, loaded, responses, added, newItems, result>>

uniVars == <<articles, path, html, links, rel, siteBase, passes, outcome>>

vars ==
    <<bank, pages, topic, pc, reply, bankFile, loaded, responses, added, newItems, result,
      articles, path, html, links, rel, siteBase, passes, outcome>>

----------------------------------------------------------------------------
(* Generic helpers standing for Python built-ins.                          *)

\* min(a, b)
Min(a, b) == IF a <= b THEN a ELSE b

\* Python's tuple / str comparison: lexicographic, a proper prefix first.
RECURSIVE LexLess(_, _)
LexLess(a, b) ==
    IF a = <<>> THEN b # <<>>
    ELSE IF b = <<>> THEN FALSE
    ELSE IF Head(a) < Head(b) THEN TRUE
    ELSE IF Head(b) < Head(a) THEN FALSE
    ELSE LexLess(Tail(a), Tail(b))

\* list.sort(key=...) / sorted(..., key=...): a stable sort.  keyed is the
\* list of <<key, element>> pairs; the result is the list of elements.  A
\* key (int, ..., str) is the sequence of its ints followed by the code
\* points of its str, which LexLess orders as Python orders the tuple.
RECURSIVE InsertKeyed(_, _)
InsertKeyed(sorted, p) ==
    IF sorted = <<>> THEN <<p>>
    ELSE IF LexLess(p[1], Head(sorted)[1]) THEN <<p>> \o sorted
    ELSE <<Head(sorted)>> \o InsertKeyed(Tail(sorted), p)

RECURSIVE SortKeyed(_)
SortKeyed(keyed) ==
    IF keyed = <<>> THEN <<>>
    ELSE InsertKeyed(SortKeyed(SubSeq(keyed, 1, Len(keyed) - 1)), keyed[Len(keyed)])

StableSort(keyed) ==
    LET s == SortKeyed(keyed) IN [i \in 1..Len(s) |-> s[i][2]]

\* The elements of a list, as a set.
Range(s) == {s[i] : i \in 1..Len(s)}

\* list.index(x): the first position of x.
IndexOf(s, x) == CHOOSE i \in 1..Len(s) : s[i] = x /\ \A j \in 1..(i - 1) : s[j] # x

\* sorted(S) for a set of strings.
RECURSIVE SortedSeq(_)
SortedSeq(S) ==
    IF S = {} THEN <<>>
    ELSE LET m == CHOOSE x \in S : \A y \in S : y = x \/ LexLess(x, y)
         IN  <<m>> \o SortedSeq(S \ {m})

Reverse(s) == [i \in 1..Len(s) |-> s[Len(s) + 1 - i]]

Rotations(s) ==
    {[i \in 1..Len(s) |-> s[((i + k - 1) % Len(s)) + 1]] : k \in 0..(Len(s) - 1)}

\* The orders in which a Python set may be iterated.  Every enumeration of
\* the set is explored while it has at most MaxFullOrders elements; for a
\* larger set the rotations of its ascending and descending enumerations.
MaxFullOrders == 3

IterOrders(S) ==
    IF Cardinality(S) <= MaxFullOrders
    THEN {o \in [1..Cardinality(S) -> S] : \A i, j \in DOMAIN o : i # j => o[i] # o[j]}
    ELSE Rotations(SortedSeq(S)) \cup Rotations(Reverse(SortedSeq(S)))

----------------------------------------------------------------------------
(* tools/agent_generate.py: the selector                                   *)

CATEGORY_ORDER == <<"scheduling", "page-replacement", "deadlock", "parsing", "other">>

\* File names: "index.html", "articles.html" and the article pages.
INDEX_HTML == <<105, 46>>
ARTICLES_HTML == <<97, 114, 116, 46>>

\* list_existing_article_html: root *.html except index.html/articles.html
\* (the caller makes a set of it, main line 343).
list_existing_article_html(root) == root \ {INDEX_HTML, ARTICLES_HTML}

\* rank_of, nested in pick_next_topic.
rank_of(t) == IF "rank" \in DOMAIN t THEN t.rank ELSE 999

\* bank_by_file = {str(t.get("filename")): t for t in bank}; .get(f, {}):
\* the LAST entry of that filename, None when there is none.
bank_by_file(bk, f) ==
    LET hits == {i \in 1..Len(bk) : bk[i].filename = f}
    IN  IF hits = {} THEN <<>>
        ELSE <<bk[CHOOSE i \in hits : \A j \in hits : j <= i]>>

\* The counting loop of category_balance_order, over the set's elements in
\* the order `order` the iteration happens to take.
RECURSIVE CountLoop(_, _, _)
CountLoop(order, bk, counts) ==
    IF order = <<>> THEN counts
    ELSE LET meta == bank_by_file(bk, Head(order))
             cat  == IF meta = <<>> THEN "other" ELSE meta[1].category
             c1   == IF cat \in DOMAIN counts THEN counts
                     ELSE [c \in DOMAIN counts \cup {cat} |->
                             IF c = cat THEN 0 ELSE counts[c]]
             c2   == [c1 EXCEPT ![cat] = @ + 1]
         IN  CountLoop(Tail(order), bk, c2)

\* A plausible slip: the loop leaves after the first file it meets, so the
\* counts depend on which file the set yields first.
category_counts_first_only(order, bk) ==
    CountLoop(IF order = <<>> THEN <<>> ELSE <<Head(order)>>, bk,
              [c \in Range(CATEGORY_ORDER) |-> 0])

category_counts(order, bk) ==
    CountLoop(order, bk, [c \in Range(CATEGORY_ORDER) |-> 0])

\* A plausible slip: the declared order is returned as it is, unsorted.
category_balance_order_unsorted(order, bk) == CATEGORY_ORDER

category_balance_order(order, bk) ==
    LET counts == category_counts(order, bk)
    IN  StableSort([i \in 1..Len(CATEGORY_ORDER) |->
            << <<counts[CATEGORY_ORDER[i]], IndexOf(CATEGORY_ORDER, CATEGORY_ORDER[i])>>,
               CATEGORY_ORDER[i] >>])

\* A plausible slip: the candidates are left in the bank's order.
sort_topics_unsorted(ts) == ts

\* candidates / leftovers .sort(key=lambda t: (rank_of(t), str(filename)))
sort_topics(ts) ==
    StableSort([i \in 1..Len(ts) |-> << <<rank_of(ts[i])>> \o ts[i].filename, ts[i] >>])

\* The for-loop over cats of pick_next_topic (lines 162-169).
RECURSIVE ScanCategories(_, _, _)
ScanCategories(cats, existing_files, bk) ==
    IF cats = <<>> THEN <<>>
    ELSE LET InCat(t) == t.category = Head(cats) /\ t.filename \notin existing_files
             candidates == sort_topics(SelectSeq(bk, InCat))
         IN  IF candidates # <<>> THEN <<candidates[1]>>
             ELSE ScanCategories(Tail(cats), existing_files, bk)

\* A plausible slip: no fallback after the category scan.
pick_next_topic_no_leftovers(order, bk) ==
    ScanCategories(category_balance_order(order, bk), Range(order), bk)

\* pick_next_topic(existing_files, bank); order is the iteration order of
\* existing_files.
pick_next_topic(order, bk) ==
    LET existing_files == Range(order)
        scanned == ScanCategories(category_balance_order(order, bk), existing_files, bk)
        Missing(t) == t.filename \notin existing_files
        leftovers == sort_topics(SelectSeq(bk, Missing))
    IN  IF scanned # <<>> THEN scanned
        ELSE IF leftovers # <<>> THEN <<leftovers[1]>>
        ELSE <<>>

----------------------------------------------------------------------------
(* agent_generate.main as a state machine: one selection and one           *)
(* generation per run, runs repeated against the site root.                *)

\* main lines 343-344: the selection.
PickNextTopic ==
    /\ pc = "pick"
    /\ \E order \in IterOrders(list_existing_article_html(pages)) :
          /\ topic' = pick_next_topic(order, bank)
          /\ pc' = IF topic' = <<>> THEN "rebuild" ELSE "generate"
    /\ UNCHANGED <<bank, pages, reply>>

\* What client.responses.create may do: raise, or return a text (a
\* sequence of tokens: tags and other text).
ServiceReplies ==
    { [raises |-> "APIError", text |-> <<>>],
      [raises |-> "", text |-> <<>>],
      [raises |-> "", text |-> <<"<!DOCTYPE html>", "<html lang=\"en\">", "<body>", "</body>", "</html>">>],
      [raises |-> "", text |-> <<"<HTML>", "<BODY>", "</BODY>", "</HTML>">>],
      [raises |-> "", text |-> <<"Here", "it", "is:", "<html>", "<body>", "</body>", "</html>">>],
      [raises |-> "", text |-> <<"<html>", "<body>", "Sorry,", "truncated">>],
      [raises |-> "", text |-> <<"<body>", "</body>", "</html>">>] }

\* html.lower(), per token.
LowerTag(tok) ==
    CASE tok = "<HTML>" -> "<html>"
      [] tok = "</HTML>" -> "</html>"
      [] tok = "<BODY>" -> "<body>"
      [] tok = "</BODY>" -> "</body>"
      [] OTHER -> tok

\* The tokens that hold "<html" and "</html>".
HOLDS_HTML_OPEN == {"<html>", "<html lang=\"en\">"}
HOLDS_HTML_CLOSE == {"</html>"}

\* A plausible slip: `and` for `or`, so that one marker is enough.
looks_like_html_either(text) ==
    \/ \E i \in 1..Len(text) : LowerTag(text[i]) \in HOLDS_HTML_OPEN
    \/ \E i \in 1..Len(text) : LowerTag(text[i]) \in HOLDS_HTML_CLOSE

\* not ("<html" not in html.lower() or "</html>" not in html.lower())
looks_like_html(text) ==
    /\ \E i \in 1..Len(text) : LowerTag(text[i]) \in HOLDS_HTML_OPEN
    /\ \E i \in 1..Len(text) : LowerTag(text[i]) \in HOLDS_HTML_CLOSE

\* generate_one_new_page: the service's text either passes the <html> ...
\* </html> test and is written as the topic's file, or RuntimeError (or
\* the service's own exception) ends the run.
GenerateOneNewPage ==
    /\ pc = "generate"
    /\ \E r \in ServiceReplies :
          /\ reply' = <<r>>
          /\ IF r.raises = "" /\ looks_like_html(r.text)
             THEN /\ pages' = pages \cup {topic[1].filename}
                  /\ pc' = "rebuild"
             ELSE /\ pc' = "aborted"
                  /\ UNCHANGED pages
    /\ UNCHANGED <<bank, topic>>

\* main lines 353-361: sitemap, articles.json, faq.json, unify; none of
\* them adds or removes a page.
Rebuild ==
    /\ pc = "rebuild"
    /\ pc' = "done"
    /\ reply' = <<>>
    /\ UNCHANGED <<bank, pages, topic>>

\* The next invocation of the script against the same site root.
NextRun ==
    /\ pc \in {"done", "aborted"}
    /\ pc' = "pick"
    /\ topic' = <<>>
    /\ reply' = <<>>
    /\ UNCHANGED <<bank, pages>>

Next ==
    \/ PickNextTopic /\ UNCHANGED <<expVars, uniVars>>
    \/ GenerateOneNewPage /\ UNCHANGED <<expVars, uniVars>>
    \/ Rebuild /\ UNCHANGED <<expVars, uniVars>>
    \/ NextRun /\ UNCHANGED <<expVars, uniVars>>

\* The variables of topic_expand.py, which the selector's runs leave alone.
ExpandIdle ==
    /\ bankFile = <<>>
    /\ loaded = <<>>
    /\ responses = <<>>
    /\ added = 0
    /\ newItems = <<>>
    /\ result = "none"

\* The variables of unify_pages.py, likewise.
UnifyIdle ==
    /\ articles = <<>>
    /\ path = <<>>
    /\ html = <<>>
    /\ links = <<>>
    /\ rel = <<>>
    /\ siteBase = ""
    /\ passes = 0
    /\ outcome = "none"

\* Inputs of the selector: banks of NumTopics entries with distinct file
\* names (expand_bank persists no file name twice), listed in descending
\* file-name order, each with a category inside or outside CATEGORY_ORDER
\* and a rank that is 1 or absent; any set of root pages.
NumTopics == 3

TopicFile(i) == <<97 + i, 46>>
FOREIGN_HTML == <<122, 46>>

SelCategories == {"scheduling", "other", "graph"}

SelBanks ==
    {[i \in 1..NumTopics |->
        IF hasRank[i]
        THEN [filename |-> TopicFile(NumTopics + 1 - i), category |-> cat[i], rank |-> 1]
        ELSE [filename |-> TopicFile(NumTopics + 1 - i), category |-> cat[i]]] :
     cat \in [1..NumTopics -> SelCategories], hasRank \in [1..NumTopics -> BOOLEAN]}

\* The bank of the specification's scenario: a.html (scheduling, rank 1)
\* and b.html (parsing, rank 1).
A_HTML == <<97, 46>>
B_HTML == <<98, 46>>

ScenarioBank ==
    << [filename |-> A_HTML, category |-> "scheduling", rank |-> 1],
       [filename |-> B_HTML, category |-> "parsing", rank |-> 1] >>

Init ==
    /\ bank \in SelBanks \cup {ScenarioBank}
    /\ pages \in SUBSET ({TopicFile(i) : i \in 1..NumTopics} \cup {INDEX_HTML, FOREIGN_HTML})
    /\ topic = <<>>
    /\ pc = "pick"
    /\ reply = <<>>
    /\ ExpandIdle
    /\ UnifyIdle

Spec == Init /\ [][Next]_vars

\* Select-then-produce cycles from an empty site: banks of 5 * Supply or
\* 5 * Supply + 2 entries spread round-robin over the declared categories,
\* pairwise distinct ranks, optionally one entry of an undeclared category.
Supply == 2

CycleBanks ==
    {[i \in 1..(len + extra) |->
        [filename |-> TopicFile(i),
         category |-> IF i > len THEN "graph" ELSE CATEGORY_ORDER[((i + s) % 5) + 1],
         rank     |-> (i * m) % 17]] :
     s \in 0..4, m \in 1..4, len \in {5 * Supply, 5 * Supply + 2}, extra \in {0, 1}}

InitCycle ==
    /\ bank \in CycleBanks
    /\ pages = {}
    /\ topic = <<>>
    /\ pc = "pick"
    /\ reply = <<>>
    /\ ExpandIdle
    /\ UnifyIdle

SpecCycle == InitCycle /\ [][Next]_vars

----------------------------------------------------------------------------
(* Claims about the selector.                                              *)

existing == list_existing_article_html(pages)

\* The selection has just been made on the current pages.
JustPicked == pc = "generate" \/ (pc = "rebuild" /\ topic = <<>>)

\* C1: the topic the selector returned for (bank, produced-set) is the one
\* it returns under every order in which the produced-set can be iterated.
C1_SelectorDeterminism ==
    JustPicked => \A o \in IterOrders(existing) : pick_next_topic(o, bank) = topic

\* A selection made with two or more produced pages of different categories,
\* where the iteration order could matter.
C1_Witness ==
    /\ pc = "generate"
    /\ \E f, g \in existing :
          /\ bank_by_file(bank, f) # <<>> /\ bank_by_file(bank, g) # <<>>
          /\ bank_by_file(bank, f)[1].category # bank_by_file(bank, g)[1].category

\* C2: a returned topic is an entry of the bank whose file is not produced,
\* and None is returned only when every bank file is produced.
C2_SelectorContract ==
    /\ pc = "generate" =>
          /\ Len(topic) = 1
          /\ topic[1] \in Range(bank)
          /\ topic[1].filename \notin existing
    /\ (pc = "rebuild" /\ topic = <<>>) =>
          \A i \in 1..Len(bank) : bank[i].filename \in existing

\* The fallback case: the selected entry's category is not declared.
C2_Witness ==
    /\ pc = "generate"
    /\ topic[1].category \notin Range(CATEGORY_ORDER)

\* C2 (exhausted case reached).
C2_WitnessExhausted ==
    pc = "rebuild" /\ topic = <<>> /\ existing # {}

ProducedCount(c) ==
    Cardinality({f \in existing :
        bank_by_file(bank, f) # <<>> /\ bank_by_file(bank, f)[1].category = c})

SupplyOf(c) == Cardinality({i \in 1..Len(bank) : bank[i].category = c})

CeilDiv(a, b) == (a + b - 1) \div b

Balanced ==
    \A c, d \in Range(CATEGORY_ORDER) : ProducedCount(c) - ProducedCount(d) <= 1

\* C3: after n cycles from an empty site, if every declared category holds
\* at least ceil(n / 5) entries (enough for its share of n cycles), the
\* produced counts of any two declared categories differ by at most 1.
C3_CategoryBalance ==
    (\A c \in Range(CATEGORY_ORDER) :
        SupplyOf(c) >= CeilDiv(Cardinality(existing), Len(CATEGORY_ORDER)))
    => Balanced

\* Seven cycles done with enough supply: two categories at 2, three at 1.
C3_Witness ==
    /\ Cardinality(existing) = 5 + 2
    /\ \A c \in Range(CATEGORY_ORDER) : SupplyOf(c) >= 2
    /\ \E c \in Range(CATEGORY_ORDER) : ProducedCount(c) = 2
    /\ \E c \in Range(CATEGORY_ORDER) : ProducedCount(c) = 1

\* The category a produced file counts for: its bank entry's, "other"
\* when the bank has no entry for it.
MappedCategory(f) ==
    IF bank_by_file(bank, f) # <<>> THEN bank_by_file(bank, f)[1].category ELSE "other"

MappedCount(c) == Cardinality({f \in existing : MappedCategory(f) = c})

\* c comes before d by (produced count ascending, declared order ascending).
Before(c, d) ==
    \/ MappedCount(c) < MappedCount(d)
    \/ /\ MappedCount(c) = MappedCount(d)
       /\ IndexOf(CATEGORY_ORDER, c) < IndexOf(CATEGORY_ORDER, d)

Unproduced(c) ==
    {i \in 1..Len(bank) : bank[i].category = c /\ bank[i].filename \notin existing}

Open == {c \in Range(CATEGORY_ORDER) : Unproduced(c) # {}}

IsFirstOpen(c) == c \in Open /\ \A d \in Open : d = c \/ Before(c, d)

\* t comes no later than u by (rank ascending, filename ascending).
NoLater(t, u) ==
    \/ rank_of(t) < rank_of(u)
    \/ rank_of(t) = rank_of(u) /\ (t.filename = u.filename \/ LexLess(t.filename, u.filename))

\* C14: when a declared category has an unproduced entry, the selector
\* returns, from the first such category by (produced count, declared
\* order), the unproduced entry of lowest rank, then lowest file name; the
\* scenario bank yields a.html on an empty site and b.html once a.html is
\* produced.
C14_RoundRobin ==
    /\ (JustPicked /\ Open # {}) =>
          /\ Len(topic) = 1
          /\ topic[1] \in Range(bank)
          /\ topic[1].filename \notin existing
          /\ IsFirstOpen(topic[1].category)
          /\ \A i \in Unproduced(topic[1].category) : NoLater(topic[1], bank[i])
    /\ (JustPicked /\ bank = ScenarioBank /\ existing = {}) => topic = <<ScenarioBank[1]>>
    /\ (JustPicked /\ bank = ScenarioBank /\ existing = {A_HTML}) => topic = <<ScenarioBank[2]>>

\* The second selection of the scenario: a.html produced, b.html chosen.
C14_Witness ==
    /\ pc = "generate"
    /\ bank = ScenarioBank
    /\ existing = {A_HTML}
    /\ topic = <<ScenarioBank[2]>>

\* A selection where the produced counts, not the declared order, decide.
C14_WitnessCounts ==
    /\ pc = "generate"
    /\ \E c \in Open : IndexOf(CATEGORY_ORDER, c) < IndexOf(CATEGORY_ORDER, topic[1].category)

\* The service's answer is no document: the call raised, or the text lacks
\* an opening or a closing document-root marker.
NoDocument(r) ==
    \/ r.raises # ""
    \/ \A i \in 1..Len(r.text) : LowerTag(r.text[i]) \notin HOLDS_HTML_OPEN
    \/ \A i \in 1..Len(r.text) : LowerTag(r.text[i]) \notin HOLDS_HTML_CLOSE

\* C13: when the service's answer is no document the run aborts, the
\* topic's page file is not written, and the bank, the site's pages and
\* everything topic_expand.py and unify_pages.py persisted stay as they
\* were.
C13_RejectedNotPersisted ==
    [][(pc = "generate" /\ reply' # <<>> /\ NoDocument(reply'[1]))
        => /\ pc' = "aborted"
           /\ pages' = pages
           /\ topic[1].filename \notin pages'
           /\ bank' = bank
           /\ UNCHANGED <<expVars, uniVars>>]_vars

\* A run aborted on a text that opens a document and never closes it.
C13_Witness ==
    /\ pc = "aborted"
    /\ reply # <<>> /\ reply[1].raises = ""
    /\ \E i \in 1..Len(reply[1].text) : LowerTag(reply[1].text[i]) \in HOLDS_HTML_OPEN
    /\ topic[1].filename \notin pages

----------------------------------------------------------------------------
(* tools/topic_expand.py: text helpers                                     *)

\* Scaled-down stand-ins for the source's limits (MAX_BANK_SIZE = 260 and
\* NEW_ITEMS_PER_RUN_LIMIT = 50, lines 32-33; suggestions[:10], line 287).
\* The code only compares lengths with them.
MAX_BANK_SIZE == 3
NEW_ITEMS_PER_RUN_LIMIT == 2
SUGGESTIONS_PER_SEED == 2

BANNED_SUBSTRINGS ==
    << <<"pdf">>, <<"ppt">>, <<"slides">>, <<"download">>, <<"solution", " ", "manual">>,
       <<"github">>, <<"youtube">>, <<"quizlet">>, <<"chegg">>, <<"coursehero">> >>

\* Two of the eighteen seeds of SEEDS, of different categories.
SEEDS ==
    << [category |-> "scheduling", query |-> "sjf srtf scheduling example"],
       [category |-> "page-replacement", query |-> "fifo page replacement example"] >>

IsSpace(tok) == tok = " "

\* The tokens that are neither [a-z0-9] words nor whitespace after
\* normalize_text.
IsPunct(tok) == tok \in {"-", "'", "U+2019", "(", ")"}

\* len() of a token, in characters.
TokLen(tok) ==
    CASE tok = "fifo" -> 4
      [] tok = "sjf" -> 3
      [] tok = "example" -> 7
      [] tok = "algorithm" -> 9
      [] tok = "pdf" -> 3
      [] tok = "banker" -> 6
      [] tok = "bankers" -> 7
      [] tok = "deadlock" -> 8
      [] tok = "heap" -> 4
      [] tok = "belady" -> 6
      [] OTHER -> 1

\* unicodedata.normalize("NFKC", s), per token: a full-width spelling
\* becomes the ASCII one.
NFKC(tok) == IF tok = "FIFO(fullwidth)" THEN "FIFO" ELSE tok

\* str.lower(), per token.
Lower(tok) ==
    CASE tok = "FIFO" -> "fifo"
      [] tok = "Example" -> "example"
      [] tok = "SJF" -> "sjf"
      [] OTHER -> tok

MapNFKC(s) == [i \in 1..Len(s) |-> NFKC(s[i])]

MapLower(s) == [i \in 1..Len(s) |-> Lower(s[i])]

\* re.sub(r"[^a-z0-9\s]+", " ", t): each run of other characters becomes
\* one space (the runs are collapsed by the next re.sub).
PunctToSpace(s) == [i \in 1..Len(s) |-> IF IsPunct(s[i]) THEN " " ELSE s[i]]

\* str.strip(): leading and trailing whitespace removed.
RECURSIVE LStrip(_)
LStrip(s) == IF s # <<>> /\ IsSpace(Head(s)) THEN LStrip(Tail(s)) ELSE s

RECURSIVE RStrip(_)
RStrip(s) ==
    IF s # <<>> /\ IsSpace(s[Len(s)]) THEN RStrip(SubSeq(s, 1, Len(s) - 1)) ELSE s

Strip(s) == RStrip(LStrip(s))

\* re.sub(r"\s+", " ", s): every run of whitespace becomes one space.
RECURSIVE CollapseSpaces(_)
CollapseSpaces(s) ==
    IF s = <<>> THEN <<>>
    ELSE IF IsSpace(Head(s)) /\ Len(s) >= 2 /\ IsSpace(s[2]) THEN CollapseSpaces(Tail(s))
    ELSE <<Head(s)>> \o CollapseSpaces(Tail(s))

normalize_text(s) == CollapseSpaces(MapLower(Strip(MapNFKC(s))))

\* pat occurs in s at position i.
MatchesAt(s, i, pat) ==
    /\ i + Len(pat) - 1 <= Len(s)
    /\ \A j \in 1..Len(pat) : s[i + j - 1] = pat[j]

\* `pat in s`
Contains(s, pat) == \E i \in 1..Len(s) : MatchesAt(s, i, pat)

\* any(k in t for k in pats)
ContainsAny(s, pats) == \E k \in 1..Len(pats) : Contains(s, pats[k])

\* str.replace(old, new)
RECURSIVE Replace(_, _, _)
Replace(s, old, new) ==
    IF s = <<>> THEN <<>>
    ELSE IF MatchesAt(s, 1, old) THEN new \o Replace(SubSeq(s, Len(old) + 1, Len(s)), old, new)
    ELSE <<Head(s)>> \o Replace(Tail(s), old, new)

\* len(t), in characters.
RECURSIVE CharLen(_)
CharLen(s) == IF s = <<>> THEN 0 ELSE TokLen(Head(s)) + CharLen(Tail(s))

is_bad_topic(s) ==
    LET t == normalize_text(s)
    IN  \/ CharLen(t) < 8
        \/ ContainsAny(t, BANNED_SUBSTRINGS)
        \/ ~Contains(t, <<"example">>) /\ ~Contains(t, <<"algorithm">>) /\ ~Contains(t, <<"parsing">>)

\* t2.split(" "): the words between single spaces.
Words(s) == SelectSeq(s, LAMBDA tok : ~IsSpace(tok))

slugify_filename(topic_text) ==
    LET t  == normalize_text(topic_text)
        ta == Replace(Replace(t, <<"banker", "'", "s">>, <<"bankers">>),
                      <<"banker", "U+2019", "s">>, <<"bankers">>)
        tb == Replace(Replace(ta, <<"(", "srtf", ")">>, <<"srtf">>),
                      <<"(", "opt", ")">>, <<"opt">>)
        t2 == Strip(CollapseSpaces(PunctToSpace(tb)))
        words == SubSeq(Words(t2), 1, Min(10, Len(Words(t2))))
        base  == IF words = <<>> THEN <<"worked", "example">> ELSE words
    IN  IF ~Contains(base, <<"example">>) THEN base \o <<"example">> ELSE base

infer_category(seed_category, suggestion) ==
    LET t == normalize_text(suggestion)
    IN  IF ContainsAny(t, << <<"fifo">>, <<"lru">>, <<"optimal">>, <<"second", " ", "chance">>,
                             <<"clock">>, <<"belady">>, <<"page", " ", "replacement">> >>)
        THEN "page-replacement"
        ELSE IF ContainsAny(t, << <<"round", " ", "robin">>, <<"sjf">>, <<"srtf">>,
                                  <<"priority", " ", "scheduling">>, <<"mlfq">>,
                                  <<"cpu", " ", "scheduling">> >>)
        THEN "scheduling"
        ELSE IF ContainsAny(t, << <<"banker">>, <<"deadlock">>, <<"resource", " ", "allocation">>,
                                  <<"rag">>, <<"safety">> >>)
        THEN "deadlock"
        ELSE IF ContainsAny(t, << <<"parsing">>, <<"first">>, <<"follow">>, <<"ll1">>,
                                  <<"left", " ", "recursion">>, <<"shift", " ", "reduce">>,
                                  <<"lr", " ", "parsing">> >>)
        THEN "parsing"
        ELSE seed_category

\* build_prompt: a non-empty text made of the category's rules and the
\* stripped suggestion.
build_prompt(category, suggestion) == <<category, Strip(suggestion)>>

----------------------------------------------------------------------------
(* The suggestions and hand-written bank entries of the model.             *)

\* Suggestions the source may return.
SUG_FIFO       == <<"fifo", " ", "example">>
SUG_FIFO_CASE  == <<" ", "FIFO", " ", " ", "Example">>
SUG_FIFO_DASH  == <<"fifo", "-", "example">>
SUG_SJF        == <<"sjf", " ", "algorithm">>
SUG_SJF_PDF    == <<"sjf", " ", "example", " ", "pdf">>
SUG_SHORT      == <<"sjf">>
SUG_BANKER     == <<"banker", "'", "s", " ", "algorithm">>
SUG_HEAP       == <<"heap", " ", "example">>

\* Entries written by hand into topic_bank_auto.json.
MANUAL_FIFO ==
    [filename |-> <<"fifo", "example">>, category |-> "page-replacement", featured |-> TRUE,
     rank |-> 1, title_hint |-> <<"FIFO", " ", "Example">>, prompt |-> <<"manual">>]

\* The same file name in another case; its title is that of SUG_SJF.
MANUAL_FIFO_UPPER ==
    [filename |-> <<"FIFO", "example">>, category |-> "scheduling", featured |-> FALSE,
     rank |-> 2, title_hint |-> <<"SJF", " ", "algorithm">>, prompt |-> <<"manual">>]

\* Another file name under the title of MANUAL_FIFO.
MANUAL_BELADY ==
    [filename |-> <<"belady">>, category |-> "page-replacement", featured |-> FALSE,
     rank |-> 3, title_hint |-> <<"FIFO(fullwidth)", " ", " ", "example">>, prompt |-> <<"manual">>]

\* An entry without prompt, and an item that is no object.
MANUAL_NO_PROMPT == [filename |-> <<"heap">>, category |-> "other"]
NOT_A_DICT == [nondict |-> TRUE]

----------------------------------------------------------------------------
(* tools/topic_expand.py: expand_bank                                      *)

\* The texts the model feeds to the text helpers: suggestions, their
\* stripped forms (title_hint) and the hand-written title_hints.
Suggestions ==
    {SUG_FIFO, SUG_FIFO_CASE, SUG_FIFO_DASH, SUG_SJF, SUG_SJF_PDF, SUG_SHORT, SUG_BANKER,
     SUG_HEAP}

Texts ==
    Suggestions \cup {Strip(x) : x \in Suggestions}
        \cup {MANUAL_FIFO.title_hint, MANUAL_FIFO_UPPER.title_hint, MANUAL_BELADY.title_hint}

\* normalize_text, tabulated over these texts.
NormalizeTable == [x \in Texts |-> normalize_text(x)]

\* isinstance(x, dict): a JSON item that is no object is [nondict |-> TRUE].
IsDict(x) == "nondict" \notin DOMAIN x

\* x.get(key) is truthy: the key is there (the values used are non-empty).
Has(x, key) == key \in DOMAIN x

\* read_json + load_existing_bank: [] unless the file holds a JSON list;
\* of a list, the dicts that have filename, prompt and category.
load_existing_bank(file) ==
    IF file = <<>> THEN <<>>
    ELSE SelectSeq(file[1], LAMBDA x :
            IsDict(x) /\ Has(x, "filename") /\ Has(x, "prompt") /\ Has(x, "category"))

\* A plausible slip: the title_hints of the bank are not collected.
bank_keys_no_titles(bk) ==
    [filenames |-> {MapLower(bk[i].filename) : i \in 1..Len(bk)}, titles |-> {}]

\* A plausible slip: the dedupe sets start empty.
bank_keys_empty(bk) == [filenames |-> {}, titles |-> {}]

\* bank_keys: the lower-cased filenames and the normalized title_hints.
bank_keys(bk) ==
    [filenames |-> {MapLower(bk[i].filename) : i \in 1..Len(bk)},
     titles    |-> {NormalizeTable[bk[i].title_hint] :
                        i \in {j \in 1..Len(bk) : Has(bk[j], "title_hint")}}]

\* The exceptions the try of expand_bank catches (line 284).
CAUGHT == {"URLError", "HTTPError", "TimeoutError", "JSONDecodeError"}

\* fetch_google_suggest on a response of the suggestion source.  A response
\* is [raises, shaped, items]: the exception urlopen / resp.read() /
\* json.loads raises ("" for none), whether the JSON is a list whose second
\* element is a list, and that list.
fetch_google_suggest(r) ==
    IF r.raises # "" THEN [raises |-> r.raises, value |-> <<>>]
    ELSE IF r.shaped THEN [raises |-> "", value |-> r.items]
    ELSE [raises |-> "", value |-> <<>>]

\* The item of lines 302-312.
new_item(seed, sug) ==
    LET cat == infer_category(seed.category, sug)
    IN  [filename   |-> slugify_filename(sug),
         category   |-> cat,
         featured   |-> FALSE,
         rank       |-> 90,
         tags       |-> normalize_text(sug),
         title_hint |-> Strip(sug),
         prompt     |-> build_prompt(cat, sug),
         source     |-> "google_suggest",
         seed       |-> seed.query]

\* is_bad_topic, slugify_filename and the item of lines 302-312, tabulated
\* over the suggestions and seeds.
BadTopicTable == [x \in Suggestions |-> is_bad_topic(x)]
SlugTable == [x \in Suggestions |-> slugify_filename(x)]
ItemTable == [i \in 1..Len(SEEDS), x \in Suggestions |-> new_item(SEEDS[i], x)]

\* Lines 302-316 for a suggestion that passed the screens: the item is
\* appended and its keys are recorded.
Accept(st, item, filename_lower, title_norm) ==
    [new_items |-> Append(st.new_items, item),
     filenames |-> st.filenames \cup {filename_lower},
     titles    |-> st.titles \cup {title_norm}]

\* The inner loop (lines 289-319) over the suggestions of seed SEEDS[i];
\* st holds new_items, existing_filenames and existing_titles.
RECURSIVE SuggestionLoop(_, _, _)
SuggestionLoop(sugs, i, st) ==
    IF sugs = <<>> THEN st
    ELSE IF BadTopicTable[Head(sugs)] THEN SuggestionLoop(Tail(sugs), i, st)
    ELSE IF MapLower(SlugTable[Head(sugs)]) \in st.filenames
         THEN SuggestionLoop(Tail(sugs), i, st)
    ELSE IF NormalizeTable[Head(sugs)] \in st.titles
         THEN SuggestionLoop(Tail(sugs), i, st)
    ELSE IF Len(st.new_items) + 1 >= NEW_ITEMS_PER_RUN_LIMIT
         THEN Accept(st, ItemTable[i, Head(sugs)], MapLower(SlugTable[Head(sugs)]),
                     NormalizeTable[Head(sugs)])
    ELSE SuggestionLoop(Tail(sugs), i,
                        Accept(st, ItemTable[i, Head(sugs)], MapLower(SlugTable[Head(sugs)]),
                               NormalizeTable[Head(sugs)]))

\* What the loop over the seeds hands on: whether an exception left it,
\* how many seeds were fetched, and the loop's variables.
LoopEnd(raised, fetched, st) == [raised |-> raised, fetched |-> fetched, st |-> st]

\* suggestions[:10] of what the fetch gave ([] after a caught exception).
FirstSuggestions(got) ==
    IF got.raises # "" THEN <<>>
    ELSE SubSeq(got.value, 1, Min(SUGGESTIONS_PER_SEED, Len(got.value)))

RECURSIVE SeedLoop(_, _, _)

\* Lines 318-324 after seed i's suggestions: leave at the per-run limit,
\* else go on with the next seed.
AfterSeed(i, resp, st2) ==
    IF Len(st2.new_items) >= NEW_ITEMS_PER_RUN_LIMIT THEN LoopEnd(FALSE, i, st2)
    ELSE SeedLoop(i + 1, resp, st2)

\* Lines 282-287 with the fetch's outcome: an exception outside CAUGHT
\* leaves expand_bank.
OnFetched(i, resp, st, got) ==
    IF got.raises # "" /\ got.raises \notin CAUGHT THEN LoopEnd(TRUE, i, st)
    ELSE AfterSeed(i, resp, SuggestionLoop(FirstSuggestions(got), i, st))

\* The outer loop (lines 281-324) from seed i on.
SeedLoop(i, resp, st) ==
    IF i > Len(SEEDS) THEN LoopEnd(FALSE, i - 1, st)
    ELSE OnFetched(i, resp, st, fetch_google_suggest(resp[i]))

\* "Dedupe by filename again (safety)", lines 328-336.
RECURSIVE DedupeLoop(_, _)
DedupeLoop(merged, seen) ==
    IF merged = <<>> THEN <<>>
    ELSE LET f == MapLower(Head(merged).filename)
         IN  IF f = <<>> \/ f \in seen THEN DedupeLoop(Tail(merged), seen)
             ELSE <<Head(merged)>> \o DedupeLoop(Tail(merged), seen \cup {f})

\* A plausible slip: the slice keeps the last MAX_BANK_SIZE entries.
truncate_keep_last(deduped) ==
    IF Len(deduped) > MAX_BANK_SIZE
    THEN SubSeq(deduped, Len(deduped) - MAX_BANK_SIZE + 1, Len(deduped))
    ELSE deduped

\* A plausible slip: no truncation.
truncate_never(deduped) == deduped

\* The order (rank, category) of the entries: the rank, 999 when there is
\* none, then the category's place in the alphabet.
CatOrd(c) ==
    CASE c = "deadlock" -> 1
      [] c = "other" -> 2
      [] c = "page-replacement" -> 3
      [] c = "parsing" -> 4
      [] c = "scheduling" -> 5
      [] OTHER -> 6

RankCategoryKey(x) == <<IF "rank" \in DOMAIN x THEN x.rank ELSE 999, CatOrd(x.category)>>

\* A plausible slip: the entries are sorted by (rank, category) before the
\* slice.
truncate_sorted(deduped) ==
    IF Len(deduped) > MAX_BANK_SIZE
    THEN SubSeq(StableSort([i \in 1..Len(deduped) |-> <<RankCategoryKey(deduped[i]), deduped[i]>>]),
                1, MAX_BANK_SIZE)
    ELSE deduped

\* lines 338-339
truncate(deduped) ==
    IF Len(deduped) > MAX_BANK_SIZE THEN SubSeq(deduped, 1, MAX_BANK_SIZE) ELSE deduped

\* Lines 326-342 once the loop over the seeds is left: merge, dedupe,
\* truncate and write, unless an exception ended the call before.
Persist(file, bk, run) ==
    IF run.raised
    THEN [file |-> file, loaded |-> bk, added |-> Len(run.st.new_items),
          new_items |-> run.st.new_items, result |-> "raised"]
    ELSE [file |-> <<truncate(DedupeLoop(bk \o run.st.new_items, {}))>>, loaded |-> bk,
          added |-> Len(run.st.new_items), new_items |-> run.st.new_items, result |-> "ok"]

\* Lines 277-324 on the loaded bank.
ExpandLoaded(file, resp, bk, keys) ==
    Persist(file, bk, SeedLoop(1, resp, [new_items |-> <<>>, filenames |-> keys.filenames,
                                          titles |-> keys.titles]))

\* expand_bank on the persisted file and the source's responses: the file
\* it leaves, its local `bank`, len(new_items), and whether it raised.
ExpandFrom(file, resp, bk) == ExpandLoaded(file, resp, bk, bank_keys(bk))

expand_bank(file, resp) == ExpandFrom(file, resp, load_existing_bank(file))

----------------------------------------------------------------------------
(* expand_bank as a state machine: calls repeated against the persisted    *)
(* file, the suggestion source answering each call.                        *)

Ok(items) == [raises |-> "", shaped |-> TRUE, items |-> items]

Raises(e) == [raises |-> e, shaped |-> FALSE, items |-> <<>>]

Responses ==
    { Ok(<<SUG_FIFO, SUG_SJF>>),
      Ok(<<SUG_FIFO_CASE, SUG_FIFO_DASH, SUG_BANKER>>),
      Ok(<<SUG_BANKER, SUG_HEAP>>),
      Ok(<<SUG_SJF_PDF, SUG_SHORT>>),
      Ok(<<SUG_SJF>>),
      [raises |-> "", shaped |-> FALSE, items |-> <<>>],
      Raises("URLError"),
      Raises("JSONDecodeError"),
      Raises("ConnectionResetError") }

\* n entries of distinct file names, without title_hint.
Fillers(n) ==
    [i \in 1..n |-> [filename |-> [j \in 1..i |-> "x"], category |-> "other", rank |-> 50,
                     prompt |-> <<"manual">>]]

\* What topic_bank_auto.json may hold before the first call: nothing, an
\* empty list, hand-written lists (with a repeated file name, a repeated
\* title, malformed items), and lists just below and above the size cap.
InitialBankFiles ==
    { <<>>,
      << <<>> >>,
      << <<MANUAL_BELADY>> >>,
      << <<MANUAL_FIFO, MANUAL_FIFO_UPPER>> >>,
      << <<MANUAL_FIFO, MANUAL_BELADY>> >>,
      << <<MANUAL_NO_PROMPT, NOT_A_DICT, MANUAL_FIFO>> >>,
      << Fillers(MAX_BANK_SIZE - 1) >>,
      << Fillers(MAX_BANK_SIZE + 1) >> }

\* One run of tools/topic_expand.py.
ExpandBank ==
    /\ \E resp \in [1..Len(SEEDS) -> Responses] :
          \E out \in {expand_bank(bankFile, resp)} :
              /\ responses' = resp
              /\ bankFile' = out.file
              /\ loaded' = out.loaded
              /\ added' = out.added
              /\ newItems' = out.new_items
              /\ result' = out.result
    /\ UNCHANGED <<selVars, uniVars>>

NextExpand == ExpandBank

\* The variables of agent_generate.py, which topic_expand.py leaves alone.
SelectIdle ==
    /\ bank = <<>>
    /\ pages = {}
    /\ topic = <<>>
    /\ pc = "idle"
    /\ reply = <<>>

InitExpand ==
    /\ bankFile \in InitialBankFiles
    /\ loaded = <<>>
    /\ responses = <<>>
    /\ added = 0
    /\ newItems = <<>>
    /\ result = "none"
    /\ SelectIdle
    /\ UnifyIdle

SpecExpand == InitExpand /\ [][NextExpand]_vars

----------------------------------------------------------------------------
(* Claims about expand_bank.                                               *)

\* The items of the persisted list ([] when there is no list).
persisted == IF bankFile = <<>> THEN <<>> ELSE bankFile[1]

IsPrefix(a, b) == Len(a) <= Len(b) /\ SubSeq(b, 1, Len(a)) = a

\* The responses of the last call are those of a second pass: the source
\* answered every seed as it did to the call before.
SameSourceTwice == result = "ok" /\ result' = "ok" /\ responses' = responses

\* The original statement of C4: a second pass over the same suggestion
\* lists leaves the persisted Bank as the first pass left it.
C4_SecondPassOriginal == [][SameSourceTwice => bankFile' = bankFile]_vars

NoRepeatedFile(bk) ==
    \A i, j \in 1..Len(bk) : i # j => MapLower(bk[i].filename) # MapLower(bk[j].filename)

\* C4 (amended): when the first pass stopped short of the per-run cap and
\* its safety dedupe had no loaded entry to drop, the second pass over the
\* same suggestion lists leaves the persisted Bank unchanged, and collects
\* no new item unless the first pass had to truncate.
C4_DedupIdempotence ==
    [][(SameSourceTwice /\ added < NEW_ITEMS_PER_RUN_LIMIT /\ NoRepeatedFile(loaded))
        => /\ bankFile' = bankFile
           /\ (Len(loaded) + added <= MAX_BANK_SIZE => added' = 0)]_vars

\* A pass that met suggestions it had already turned into entries, and
\* changed nothing.
C4_Witness ==
    /\ result = "ok" /\ added = 0 /\ loaded = persisted
    /\ \E i \in DOMAIN responses : \E k \in 1..Len(responses[i].items) :
          \E e \in Range(persisted) :
              /\ "source" \in DOMAIN e
              /\ e.filename = slugify_filename(responses[i].items[k])

\* C5: a completed call leaves at most MAX_BANK_SIZE entries, and no call
\* collects or adds more than NEW_ITEMS_PER_RUN_LIMIT new entries.
C5_BankBounds ==
    /\ result = "ok" => Len(persisted) <= MAX_BANK_SIZE
    /\ added <= NEW_ITEMS_PER_RUN_LIMIT
    /\ result = "ok" => Cardinality(Range(persisted) \ Range(loaded)) <= NEW_ITEMS_PER_RUN_LIMIT

\* Both caps met in one call: the per-run cap of new items was collected
\* and the merged list was cut to the size cap.
C5_Witness ==
    /\ result = "ok"
    /\ added = NEW_ITEMS_PER_RUN_LIMIT
    /\ Len(persisted) = MAX_BANK_SIZE
    /\ Len(loaded) + added > MAX_BANK_SIZE

\* The original statement of C8: every entry of the persisted Bank is still
\* there after a call.
C8_MonotonicOriginal == [][result' = "ok" => Range(persisted) \subseteq Range(persisted')]_vars

WellFormed(x) == "nondict" \notin DOMAIN x /\ {"filename", "prompt", "category"} \subseteq DOMAIN x

\* items[i] is a well-formed entry and the first one of its lower-cased
\* file name.
FirstOfItsName(items, i) ==
    /\ WellFormed(items[i])
    /\ \A j \in 1..(i - 1) :
          WellFormed(items[j]) => MapLower(items[j].filename) # MapLower(items[i].filename)

\* How many such entries the list holds up to position i.
FirstsUpTo(items, i) == Cardinality({j \in 1..i : FirstOfItsName(items, j)})

\* C8 (amended): a completed call keeps, unmodified, in their order and at
\* the head of the persisted Bank, the first MAX_BANK_SIZE entries that are
\* well-formed and do not repeat an earlier lower-cased file name; only
\* malformed items, repeated file names and entries beyond the size cap are
\* dropped, so a Bank persisted by a completed call is only appended to.
C8_MonotonicKept ==
    [][result' = "ok" =>
        /\ \A i \in 1..Len(persisted) :
              (FirstOfItsName(persisted, i) /\ FirstsUpTo(persisted, i) <= MAX_BANK_SIZE)
              => /\ Len(persisted') >= FirstsUpTo(persisted, i)
                 /\ persisted'[FirstsUpTo(persisted, i)] = persisted[i]
        /\ result = "ok" => IsPrefix(persisted, persisted')]_vars

\* A call that appended new entries after the entries it found.
C8_Witness ==
    /\ result = "ok" /\ added > 0 /\ Len(loaded) > 0
    /\ Len(persisted) = Len(loaded) + added
    /\ IsPrefix(loaded, persisted)

TitledIdx(items) == {i \in 1..Len(items) : "title_hint" \in DOMAIN items[i]}

TitlesUnique(items) ==
    \A i, j \in TitledIdx(items) :
        i # j => normalize_text(items[i].title_hint) # normalize_text(items[j].title_hint)

FilesUnique(items) == \A i, j \in 1..Len(items) : i # j => items[i].filename # items[j].filename

\* The original statement of C9: after a call no two entries share a file
\* name and no two share a normalized title_hint.
C9_UniqueOriginal == result = "ok" => FilesUnique(persisted) /\ TitlesUnique(persisted)

\* C9 (amended): after a completed call no two entries share a file name,
\* even up to case; an entry the call added shares its normalized
\* title_hint with no other entry; and titles that were unique among the
\* loaded entries stay unique.  Titles repeated in the Bank before the call
\* are left as they are.
C9_Uniqueness ==
    result = "ok" =>
        /\ NoRepeatedFile(persisted)
        /\ \A i \in 1..Len(persisted) : \A j \in TitledIdx(persisted) :
              (i # j /\ persisted[i] \notin Range(loaded))
              => normalize_text(persisted[i].title_hint) # normalize_text(persisted[j].title_hint)
        /\ TitlesUnique(loaded) => TitlesUnique(persisted)

\* A call that added entries and turned down a suggestion whose title, but
\* not whose file name, was in the Bank.
C9_Witness ==
    /\ result = "ok" /\ added > 0
    /\ \E i \in DOMAIN responses :
          \E k \in 1..Min(SUGGESTIONS_PER_SEED, Len(responses[i].items)) :
              LET sug == responses[i].items[k]
              IN  /\ ~is_bad_topic(sug)
                  /\ \E e \in Range(persisted) :
                        /\ e \in Range(loaded)
                        /\ "title_hint" \in DOMAIN e
                        /\ normalize_text(e.title_hint) = normalize_text(sug)
                  /\ \A e \in Range(loaded) : MapLower(e.filename) # slugify_filename(sug)

\* A seed's fetch failed: an exception, or a response of another shape.
FetchFails(r) == r.raises # "" \/ ~r.shaped

\* C10: when the fetch of a seed fails, the call still completes and
\* persists the Bank.
C10_SeedFailureIsolation ==
    \A i \in DOMAIN responses : FetchFails(responses[i]) => result = "ok"

----------------------------------------------------------------------------
(* tools/unify_pages.py: related posts                                     *)
(*                                                                         *)
(* An article record of articles.json is a record with url and title (the  *)
(* code points of the strings; load_articles keeps only records that have  *)
(* both) and, when the JSON object has them, category, featured and rank.  *)

\* k of related_for: 6 in unify_all_pages (line 321), scaled down.
K == 2

\* _rank: the int rank, 9999 when there is none.
_rank(item) == IF "rank" \in DOMAIN item THEN item.rank ELSE 9999

\* a.get("category") or "other"
category_or_other(a) ==
    IF "category" \in DOMAIN a /\ a.category # "" THEN a.category ELSE "other"

\* a.get("featured") is True
is_featured(a) == "featured" \in DOMAIN a /\ a.featured = TRUE

\* A plausible slip: the list is left in the corpus's order.
sort_by_rank_title_unsorted(lst) == lst

\* lst.sort(key=lambda x: (_rank(x), str(x.get("title") or "")))
sort_by_rank_title(lst) ==
    StableSort([i \in 1..Len(lst) |-> << <<_rank(lst[i])>> \o lst[i].title, lst[i] >>])

\* push_list, nested in related_for; `seen` holds the urls of `merged`.
RECURSIVE push_list(_, _, _)
push_list(lst, merged, k) ==
    IF lst = <<>> THEN merged
    ELSE IF Head(lst).url = <<>> \/ \E m \in Range(merged) : m.url = Head(lst).url
         THEN push_list(Tail(lst), merged, k)
    ELSE IF Len(merged) + 1 >= k THEN Append(merged, Head(lst))
    ELSE push_list(Tail(lst), Append(merged, Head(lst)), k)

\* A plausible slip: the featured records are pushed before the
\* same-category ones.
MergeRelated_featured_first(same_cat, featured, others, k) ==
    LET m2 == push_list(same_cat, push_list(featured, <<>>, k), k)
        m3 == IF Len(m2) < k THEN push_list(sort_by_rank_title(others), m2, k) ELSE m2
    IN  SubSeq(m3, 1, Min(k, Len(m3)))

\* Lines 239-244, on the three lists.
MergeRelated(same_cat, featured, others, k) ==
    LET m2 == push_list(featured, push_list(same_cat, <<>>, k), k)
        m3 == IF Len(m2) < k THEN push_list(sort_by_rank_title(others), m2, k) ELSE m2
    IN  SubSeq(m3, 1, Min(k, Len(m3)))

\* The category related_for works with: that of the first record whose url
\* is the file name, "other" when there is none.
page_category(filename, arts) ==
    LET selfs == SelectSeq(arts, LAMBDA a : a.url = filename)
    IN  IF selfs # <<>> THEN category_or_other(Head(selfs)) ELSE "other"

OthersOf(filename, arts) == SelectSeq(arts, LAMBDA a : a.url # filename)

RelatedOf(others, category, k) ==
    MergeRelated(
        sort_by_rank_title(SelectSeq(others, LAMBDA a : category_or_other(a) = category)),
        sort_by_rank_title(SelectSeq(others, LAMBDA a : is_featured(a))),
        others, k)

related_for(filename, arts, k) == RelatedOf(OthersOf(filename, arts), page_category(filename, arts), k)

----------------------------------------------------------------------------
(* related_for on bounded corpora.                                         *)

NumArticles == 4

\* article i of a corpus: "a.html", "b.html", ...; the titles run against
\* the urls ("Z", "Y", ...), articles 1 and 2 share theirs.
ArticleUrl(i) == <<96 + i, 46>>

ArticleTitle(i) == IF i = 1 THEN <<89>> ELSE <<91 - i>>

\* What bank metadata an article record may carry.
Profiles ==
    { [category |-> "scheduling", rank |-> 1],
      [category |-> "scheduling", rank |-> 2, featured |-> TRUE],
      [category |-> "parsing", rank |-> 1, featured |-> TRUE],
      [category |-> "parsing", rank |-> 2, featured |-> FALSE],
      [rank |-> 1, featured |-> TRUE],
      [category |-> "" ] }

\* dict(url=..., title=..., **profile)
WithProfile(i, prof) ==
    [key \in {"url", "title"} \cup DOMAIN prof |->
        IF key = "url" THEN ArticleUrl(i)
        ELSE IF key = "title" THEN ArticleTitle(i)
        ELSE prof[key]]

\* Corpora of every length up to NumArticles.
Corpora ==
    UNION { { [i \in 1..n |-> WithProfile(i, f[i])] : f \in [1..n -> Profiles] } :
            n \in 0..NumArticles }

----------------------------------------------------------------------------
(* Claims about related_for.                                               *)

\* How many records other than the page's own have the page's category.
SameCategoryOthers ==
    Cardinality({i \in 1..Len(articles) :
        /\ articles[i].url # path
        /\ category_or_other(articles[i]) = page_category(path, articles)})

AllOfPageCategory ==
    /\ Len(rel) = K
    /\ \A i \in 1..Len(rel) : category_or_other(rel[i]) = page_category(path, articles)

NeverItself == \A i \in 1..Len(rel) : rel[i].url # path

\* The original statement of C7: K - 1 other records of the page's category
\* are enough for K recommendations of that category.
C7_DominanceOriginal ==
    outcome = "related" =>
        /\ SameCategoryOthers >= K - 1 => AllOfPageCategory
        /\ NeverItself

\* C7 (amended): when the corpus holds at least K other records of the
\* page's category, related_for returns K recommendations, all of that
\* category; and the page's own record is never among its recommendations.
C7_CategoryDominance ==
    outcome = "related" =>
        /\ SameCategoryOthers >= K => AllOfPageCategory
        /\ NeverItself

\* A page of the corpus with K same-category others, while a featured
\* record of another category has a better rank than one recommended.
C7_Witness ==
    /\ outcome = "related"
    /\ \E i \in 1..Len(articles) : articles[i].url = path
    /\ SameCategoryOthers >= K
    /\ \E i \in 1..Len(articles) : \E j \in 1..Len(rel) :
          /\ is_featured(articles[i])
          /\ articles[i].url # path
          /\ category_or_other(articles[i]) # page_category(path, articles)
          /\ _rank(articles[i]) < _rank(rel[j])

----------------------------------------------------------------------------
(* tools/unify_pages.py: the page text                                     *)
(*                                                                         *)
(* A page's text is a sequence of tokens: a tag, a run of text without     *)
(* whitespace, or one whitespace character (" ", "\n").  A regular         *)
(* expression of the source that matches a tag matches one token; the set  *)
(* of the tokens it matches stands for it.  The fixed stretches of         *)
(* build_wrapper's template that no expression of the source looks into    *)
(* are one token each.  The related links of the template are the token    *)
(* RELATED_LINKS, their text being the value of `links`.                   *)

WRAP_MARKER_START == "<!-- SITE_WRAPPER_START -->"
WRAP_MARKER_END == "<!-- SITE_WRAPPER_END -->"

TODAY == "2026-01-01"

NOT_FOUND_HTML == <<52, 48, 52, 46>>

EXCLUDE == {INDEX_HTML, ARTICLES_HTML, NOT_FOUND_HTML}

META_CHARSET == "<meta charset=\"UTF-8\">"
META_VIEWPORT == "<meta name=\"viewport\" content=\"width=device-width, initial-scale=1.0\">"
LINK_STYLESHEET == "<link rel=\"stylesheet\" href=\"style.css\">"
LINK_CANONICAL == "<link rel=\"canonical\" href=\"{site_base}/{filename}\">"
HEADER_OPEN == "<header class=\"header\">"
MAIN_OPEN == "<main class=\"card\">"
MAIN_CLOSE == "</main>"
BODY_WITH_ATTRS == "<body class=\"dark\">"
RELATED_LINKS == "{related_links}"
NO_RELATED == "<li><span style=\"color:#a9b7d6;\">No related posts yet.</span></li>"

\* The two characters backslash, n (as in printf("...\n")) and backslash, d
\* (as in the regular expression \d+), each one token.
BACKSLASH_N == "\\n"
BACKSLASH_D == "\\d"

\* r"<head[^>]*>" also matches the wrapper's <header class="header">.
HEAD_OPEN_RE == {"<head>", HEADER_OPEN}

\* r"<body[^>]*>"
BODY_OPEN_RE == {"<body>", BODY_WITH_ATTRS}

\* r"<[^>]+>"
TAG_RE ==
    { "<head>", "</head>", "<body>", BODY_WITH_ATTRS, "</body>", "<title>", "</title>",
      "<h1>", "</h1>", "<p>", "</p>", "<pre>", "</pre>", "<em>", "</em>",
      META_CHARSET, META_VIEWPORT, LINK_STYLESHEET, LINK_CANONICAL,
      HEADER_OPEN, MAIN_OPEN, MAIN_CLOSE, WRAP_MARKER_START, WRAP_MARKER_END }

\* str.isspace() of a one-character token
IsWs(tok) == tok \in {" ", "\n"}

\* str.strip() on a page text.
RECURSIVE LStripWs(_)
LStripWs(s) == IF s # <<>> /\ IsWs(Head(s)) THEN LStripWs(Tail(s)) ELSE s

RECURSIVE RStripWs(_)
RStripWs(s) ==
    IF s # <<>> /\ IsWs(s[Len(s)]) THEN RStripWs(SubSeq(s, 1, Len(s) - 1)) ELSE s

StripWs(s) == RStripWs(LStripWs(s))

\* re.sub(r"\s+", " ", s)
RECURSIVE CollapseWs(_)
CollapseWs(s) ==
    IF s = <<>> THEN <<>>
    ELSE IF IsWs(Head(s)) /\ Len(s) >= 2 /\ IsWs(s[2]) THEN CollapseWs(Tail(s))
    ELSE IF IsWs(Head(s)) THEN <<" ">> \o CollapseWs(Tail(s))
    ELSE <<Head(s)>> \o CollapseWs(Tail(s))

\* The first position from `from` on of a token of S, 0 when there is none.
FirstIn(s, S, from) ==
    IF \E i \in from..Len(s) : s[i] \in S
    THEN CHOOSE i \in from..Len(s) : s[i] \in S /\ \A j \in from..(i - 1) : s[j] \notin S
    ELSE 0

\* re.search(r"OPEN(.*?)CLOSE", s, DOTALL): the first opening token that a
\* closing token follows, with the nearest such closing token; <<>> for
\* None, else << <<i, j>> >>.
SearchFrom(s, i, closes) ==
    IF i = 0 \/ FirstIn(s, closes, i + 1) = 0 THEN <<>>
    ELSE << <<i, FirstIn(s, closes, i + 1)>> >>

Search(s, opens, closes) == SearchFrom(s, FirstIn(s, opens, 1), closes)

\* m.group of the (.*?) between the two tokens
Inner(s, m) == SubSeq(s, m[1][1] + 1, m[1][2] - 1)

\* re.sub(pattern of one token, replacement, s, count=1)
SubFirstAt(s, i, replacement) ==
    IF i = 0 THEN s ELSE SubSeq(s, 1, i - 1) \o replacement \o SubSeq(s, i + 1, Len(s))

SubFirst(s, S, replacement) == SubFirstAt(s, FirstIn(s, S, 1), replacement)

\* escape_html on the tokens of a title.
EscapeTok(tok) ==
    CASE tok = "&" -> "&amp;"
      [] tok = "<em>" -> "&lt;em&gt;"
      [] tok = "</em>" -> "&lt;/em&gt;"
      [] OTHER -> tok

escape_html(text) == [i \in 1..Len(text) |-> EscapeTok(text[i])]

\* escape_html on the code points of a url or a title of the corpus.
RECURSIVE escape_html_points(_)
escape_html_points(cs) ==
    IF cs = <<>> THEN <<>>
    ELSE (CASE Head(cs) = 38 -> <<38, 97, 109, 112, 59>>
            [] Head(cs) = 60 -> <<38, 108, 116, 59>>
            [] Head(cs) = 62 -> <<38, 103, 116, 59>>
            [] Head(cs) = 34 -> <<38, 113, 117, 111, 116, 59>>
            [] Head(cs) = 39 -> <<38, 35, 51, 57, 59>>
            [] OTHER -> <<Head(cs)>>) \o escape_html_points(Tail(cs))

\* s.splitlines()
RECURSIVE SplitLines(_)
SplitLines(s) ==
    IF s = <<>> THEN <<>>
    ELSE IF FirstIn(s, {"\n"}, 1) = 0 THEN <<s>>
    ELSE <<SubSeq(s, 1, FirstIn(s, {"\n"}, 1) - 1)>>
         \o SplitLines(SubSeq(s, FirstIn(s, {"\n"}, 1) + 1, Len(s)))

\* "\n".join(lines)
RECURSIVE JoinLines(_)
JoinLines(lines) ==
    IF lines = <<>> THEN <<>>
    ELSE IF Len(lines) = 1 THEN lines[1]
    ELSE lines[1] \o <<"\n">> \o JoinLines(Tail(lines))

Pad(spaces) == [i \in 1..spaces |-> " "]

PadAll(lines, pad) == [i \in 1..Len(lines) |-> pad \o lines[i]]

indent_lines(s, spaces) == JoinLines(PadAll(SplitLines(s), Pad(spaces)))

\* The lines ensure_viewport_and_charset inserts.
HeadInsert(head_inner) ==
    (IF META_CHARSET \in Range(head_inner) THEN <<>> ELSE <<" ", " ", META_CHARSET, "\n">>)
    \o (IF META_VIEWPORT \in Range(head_inner) THEN <<>> ELSE <<" ", " ", META_VIEWPORT, "\n">>)

InsertAfterHead(h, insert) ==
    IF insert = <<>> THEN h
    ELSE SubFirstAt(h, FirstIn(h, HEAD_OPEN_RE, 1),
                    <<h[FirstIn(h, HEAD_OPEN_RE, 1)], "\n">> \o insert)

EnsureInHead(h, head_m) ==
    IF head_m = <<>> THEN h ELSE InsertAfterHead(h, HeadInsert(Inner(h, head_m)))

ensure_viewport_and_charset(h) == EnsureInHead(h, Search(h, HEAD_OPEN_RE, {"</head>"}))

ensure_stylesheet_in_head(h) ==
    IF LINK_STYLESHEET \in Range(h) THEN h
    ELSE SubFirst(h, {"</head>"}, <<" ", " ", LINK_STYLESHEET, "\n", "</head>">>)

\* path.stem.replace("-", " ").title(), on the code points of the name.
Chr(c) == CASE c = 97 -> "a" [] c = 98 -> "b" [] c = 99 -> "c" [] OTHER -> "z"

UpperChr(c) == CASE c = 97 -> "A" [] c = 98 -> "B" [] c = 99 -> "C" [] OTHER -> "Z"

RECURSIVE TitleCase(_, _)
TitleCase(cs, word_start) ==
    IF cs = <<>> \/ Head(cs) = 46 THEN <<>>
    ELSE IF Head(cs) = 45 THEN <<" ">> \o TitleCase(Tail(cs), TRUE)
    ELSE <<IF word_start THEN UpperChr(Head(cs)) ELSE Chr(Head(cs))>>
         \o TitleCase(Tail(cs), FALSE)

FallbackTitle(name) == TitleCase(name, TRUE)

TitleFromH1(h, m, fallback) ==
    IF m = <<>> THEN fallback
    ELSE StripWs(CollapseWs(SelectSeq(Inner(h, m), LAMBDA tok : tok \notin TAG_RE)))

TitleFrom(h, m, fallback) ==
    IF m # <<>> THEN StripWs(CollapseWs(Inner(h, m)))
    ELSE TitleFromH1(h, Search(h, {"<h1>"}, {"</h1>"}), fallback)

extract_title(h, fallback) == TitleFrom(h, Search(h, {"<title>"}, {"</title>"}), fallback)

BodyInner(h, m) == IF m # <<>> THEN StripWs(Inner(h, m)) ELSE StripWs(h)

extract_body_inner(h) == BodyInner(h, Search(h, BODY_OPEN_RE, {"</body>"}))

\* Optional[str]: <<>> for None, <<text>> for a recovered text.
ExistingMain(body_inner, m) == IF m = <<>> THEN <<>> ELSE <<StripWs(Inner(body_inner, m))>>

\* A plausible slip: the content of a wrapped page is never recovered.
extract_existing_main_never(body_inner) == <<>>

extract_existing_main(body_inner) ==
    IF WRAP_MARKER_START \notin Range(body_inner) THEN <<>>
    ELSE ExistingMain(body_inner, Search(body_inner, {MAIN_OPEN}, {MAIN_CLOSE}))

\* What re.sub makes of a replacement string: backslash-n becomes a
\* newline; backslash followed by another ASCII letter is re.error ("bad
\* escape").
BadEscape(template) == BACKSLASH_D \in Range(template)

ExpandTemplate(template) ==
    [i \in 1..Len(template) |-> IF template[i] = BACKSLASH_N THEN "\n" ELSE template[i]]

\* [raises, value]: whether re.error is raised, else the new text.
SetBody(h, m, new_body_inner) ==
    IF m = <<>> THEN [raises |-> FALSE, value |-> h]
    ELSE IF BadEscape(new_body_inner) THEN [raises |-> TRUE, value |-> h]
    ELSE [raises |-> FALSE,
          value |-> SubSeq(h, 1, m[1][1] - 1)
                    \o <<h[m[1][1]], "\n">> \o ExpandTemplate(new_body_inner) \o <<"\n", "</body>">>
                    \o SubSeq(h, m[1][2] + 1, Len(h))]

set_body_preserve_attrs(h, new_body_inner) ==
    SetBody(h, Search(h, BODY_OPEN_RE, {"</body>"}), new_body_inner)

ensure_canonical(h, site_base, filename) ==
    IF site_base = "" THEN h
    ELSE IF LINK_CANONICAL \in Range(h) THEN h
    ELSE SubFirst(h, {"</head>"}, <<" ", " ", LINK_CANONICAL, "\n", "</head>">>)

\* The text of related_links, one <<href, text>> per <li>.
RelatedLinks(r) ==
    [i \in 1..Len(r) |-> <<escape_html_points(r[i].url), escape_html_points(r[i].title)>>]

build_wrapper(page_title, original_inner, r) ==
    <<WRAP_MARKER_START, "\n", "<div class=\"site\">", "\n", "\n", " ", " ", HEADER_OPEN,
      "<div class=\"brand\">...<div class=\"brand-sub\">">>
    \o escape_html(page_title)
    \o <<"</div>...<nav class=\"nav\">...</nav>", "</header>", "\n", "\n", " ", " ",
         MAIN_OPEN, "\n">>
    \o indent_lines(original_inner, 4)
    \o <<"\n", " ", " ", MAIN_CLOSE, "\n", "\n", " ", " ",
         "<section class=\"card\">...<ul class=\"links\">", "\n",
         IF r = <<>> THEN NO_RELATED ELSE RELATED_LINKS, "\n",
         "</ul>...</section>", "<div class=\"footer\">...Updated", TODAY, "</span>...</div>",
         "\n", WRAP_MARKER_END>>

OriginalInner(body_inner, recovered) == IF recovered # <<>> THEN recovered[1] ELSE body_inner

\* The file after lines 324-327: [raised, html, links].
WriteBack(h, res, r, site_base, name, old_links) ==
    IF res.raises THEN [raised |-> TRUE, html |-> <<>>, links |-> <<>>, rel |-> r]
    ELSE [raised |-> FALSE,
          html |-> ensure_canonical(res.value, site_base, name),
          links |-> IF Search(h, BODY_OPEN_RE, {"</body>"}) = <<>> THEN old_links
                    ELSE RelatedLinks(r),
          rel |-> r]

WrapBody(h, title, body_inner, r, site_base, name, old_links) ==
    WriteBack(h,
              set_body_preserve_attrs(h,
                  build_wrapper(title,
                                OriginalInner(body_inner, extract_existing_main(body_inner)), r)),
              r, site_base, name, old_links)

UnifyHeaded(h, name, arts, site_base, old_links) ==
    WrapBody(h, extract_title(h, FallbackTitle(name)), extract_body_inner(h),
             related_for(name, arts, K), site_base, name, old_links)

\* The body of unify_all_pages's loop for one file (lines 306-327).
unify_page(h, name, arts, site_base, old_links) ==
    UnifyHeaded(ensure_stylesheet_in_head(ensure_viewport_and_charset(h)),
                name, arts, site_base, old_links)

----------------------------------------------------------------------------
(* related_for on bounded corpora, as a state machine.                     *)

\* related_for and build_wrapper as unify_all_pages calls them (lines
\* 321-322), for a page without content: html is the wrapper.
RelatedFor ==
    /\ outcome = "none"
    /\ \E r \in {related_for(path, articles, K)} :
          /\ rel' = r
          /\ html' = build_wrapper(FallbackTitle(path), <<>>, r)
          /\ links' = RelatedLinks(r)
    /\ outcome' = "related"
    /\ UNCHANGED <<articles, path, siteBase, passes>>
    /\ UNCHANGED <<selVars, expVars>>

NextRelated == RelatedFor

\* The page is an article of the corpus, or a page the corpus does not list.
InitRelated ==
    /\ articles \in Corpora
    /\ path \in {ArticleUrl(1), ArticleUrl(2), FOREIGN_HTML}
    /\ html = <<>>
    /\ links = <<>>
    /\ rel = <<>>
    /\ siteBase = ""
    /\ passes = 0
    /\ outcome = "none"
    /\ SelectIdle
    /\ ExpandIdle

SpecRelated == InitRelated /\ [][NextRelated]_vars

----------------------------------------------------------------------------
(* unify_all_pages as a state machine: runs repeated over a site root that *)
(* holds one page file, with articles.json, SITE_BASE and the date fixed.  *)

\* How many runs are followed.
MaxPasses == 3

\* One run of tools/unify_pages.py.  An excluded name is skipped; re.error
\* ends the run before write_text.
UnifyAllPages ==
    /\ passes < MaxPasses
    /\ outcome # "raised"
    /\ passes' = passes + 1
    /\ IF path \in EXCLUDE
       THEN outcome' = "ok" /\ UNCHANGED <<html, links, rel>>
       ELSE \E out \in {unify_page(html, path, articles, siteBase, links)} :
               IF out.raised
               THEN outcome' = "raised" /\ rel' = out.rel /\ UNCHANGED <<html, links>>
               ELSE /\ outcome' = "ok"
                    /\ html' = out.html
                    /\ links' = out.links
                    /\ rel' = out.rel
    /\ UNCHANGED <<articles, path, siteBase>>
    /\ UNCHANGED <<selVars, expVars>>

NextUnify == UnifyAllPages

\* Head regions a generated page may come with.
Heads ==
    { <<>>,
      <<"<head>", "</head>", "\n">>,
      <<"<head>", "\n", "<title>", "\n", " ", "CPU", " ", " ", "Scheduling", "\n", "</title>",
        META_CHARSET, "</head>", "\n">>,
      <<"<head>", META_CHARSET, META_VIEWPORT, "<title>", "Tom", "&", "Jerry", "</title>",
        LINK_STYLESHEET, LINK_CANONICAL, "</head>">> }

\* Body contents: the one-line scenario of the specification, the same on
\* two lines, nothing, code samples holding a backslash escape, a content
\* with its own <main>, content with blank ends, preformatted lines, and a
\* body that holds the sentinels of a wrapper without <main class="card">.
Contents ==
    { <<"<h1>", "Title", "</h1>", "<p>", "X", "</p>">>,
      <<"<h1>", "Title", "</h1>", "\n", "<p>", "X", "</p>">>,
      <<>>,
      <<"<pre>", "printf", BACKSLASH_N, "</pre>">>,
      <<"<p>", BACKSLASH_D, "</p>">>,
      <<MAIN_OPEN, "X", MAIN_CLOSE, "<p>", "Y", "</p>">>,
      <<"\n", " ", "<h1>", "<em>", "A", "</em>", " ", "B", "</h1>", "\n">>,
      <<"<pre>", "a", "\n", " ", "b", "</pre>">>,
      <<WRAP_MARKER_START, "\n", "<p>", "X", "</p>", "\n", WRAP_MARKER_END>> }

Bodies(content) ==
    { <<"<body>">> \o content \o <<"</body>">>,
      <<BODY_WITH_ATTRS, "\n">> \o content \o <<"\n", "</body>", "\n">>,
      content }

Documents == UNION {{head \o b : b \in Bodies(c)} : head \in Heads, c \in Contents}

PAGE_HTML == <<97, 45, 98, 46>>

\* articles.json: missing, listing the page and two more, or other pages
\* only.
UnifyCorpora ==
    { <<>>,
      << [url |-> PAGE_HTML, title |-> <<65, 38, 66>>, category |-> "parsing", rank |-> 1],
         [url |-> ArticleUrl(2), title |-> <<66>>, category |-> "parsing", rank |-> 2],
         [url |-> ArticleUrl(3), title |-> <<67>>, category |-> "other", featured |-> TRUE] >>,
      << [url |-> ArticleUrl(1), title |-> <<65>>, category |-> "scheduling", rank |-> 1] >> }

InitUnify ==
    /\ articles \in UnifyCorpora
    /\ path \in {PAGE_HTML, INDEX_HTML}
    /\ html \in Documents
    /\ links = <<>>
    /\ rel = <<>>
    /\ siteBase \in {"", "https://example.org"}
    /\ passes = 0
    /\ outcome = "none"
    /\ SelectIdle
    /\ ExpandIdle

SpecUnify == InitUnify /\ [][NextUnify]_vars

----------------------------------------------------------------------------
(* Claims about unify_all_pages.                                           *)

\* C6: a run over a page that a run has already unified leaves the file as
\* it was.
C6_UnifyIdempotence ==
    [][(outcome = "ok" /\ outcome' = "ok") => (html' = html /\ links' = links)]_vars

\* C11: no run of unify_all_pages ends with an exception, whatever the
\* text of the page.
C11_NeverRaises == outcome # "raised"

\* With no head region the head edits are skipped and the body is wrapped;
\* with no body region the text keeps its body and only the head is edited.
HasHead(h) == Search(h, HEAD_OPEN_RE, {"</head>"}) # <<>>

HasBody(h) == Search(h, BODY_OPEN_RE, {"</body>"}) # <<>>

C11_SkipsMissingRegions ==
    [][(outcome' = "ok" /\ path \notin EXCLUDE) =>
        /\ (~HasHead(html) /\ "</head>" \notin Range(html))
              => {META_CHARSET, META_VIEWPORT, LINK_STYLESHEET, LINK_CANONICAL}
                    \cap Range(html') \subseteq Range(html)
        /\ HasBody(html) => WRAP_MARKER_START \in Range(html')
        /\ ~HasBody(html) => html' = ensure_canonical(ensure_stylesheet_in_head(
                                          ensure_viewport_and_charset(html)), siteBase, path)]_vars

\* How many times a token occurs in a text.
Count(s, tok) == Cardinality({i \in 1..Len(s) : s[i] = tok})

\* The markup only build_wrapper writes.
WRAPPER_MARKUP ==
    { WRAP_MARKER_START, WRAP_MARKER_END, "<div class=\"site\">", HEADER_OPEN,
      "<div class=\"brand\">...<div class=\"brand-sub\">",
      "</div>...<nav class=\"nav\">...</nav>", "</header>",
      "<section class=\"card\">...<ul class=\"links\">", RELATED_LINKS, NO_RELATED,
      "</ul>...</section>", "<div class=\"footer\">...Updated", "</span>...</div>" }

\* The body holds one wrapper: one start and one end sentinel, and a
\* content region free of sentinels and wrapper markup.
WellWrapped(h) ==
    /\ HasBody(h)
    /\ Count(extract_body_inner(h), WRAP_MARKER_START) = 1
    /\ Count(extract_body_inner(h), WRAP_MARKER_END) = 1
    /\ extract_existing_main(extract_body_inner(h)) # <<>>
    /\ Range(extract_existing_main(extract_body_inner(h))[1]) \cap WRAPPER_MARKUP = {}

----------------------------------------------------------------------------
(* Claims about the related ranking.                                       *)

\* The records other than the page's own, by position in the corpus.
OtherIdx == {i \in 1..Len(articles) : articles[i].url # path}

SameCatIdx ==
    {i \in OtherIdx : category_or_other(articles[i]) = page_category(path, articles)}

FeaturedIdx == {i \in OtherIdx : is_featured(articles[i])}

\* Record i is ranked before record j: (rank, title) ascending, records
\* equal in both in the corpus's order.
RankedBefore(i, j) ==
    \/ LexLess(<<_rank(articles[i])>> \o articles[i].title,
               <<_rank(articles[j])>> \o articles[j].title)
    \/ /\ <<_rank(articles[i])>> \o articles[i].title
          = <<_rank(articles[j])>> \o articles[j].title
       /\ i < j

RECURSIVE Ranked(_)
Ranked(S) ==
    IF S = {} THEN <<>>
    ELSE LET m == CHOOSE i \in S : \A j \in S \ {i} : RankedBefore(i, j)
         IN  <<m>> \o Ranked(S \ {m})

\* (a) same category, (b) featured not yet chosen, (c) the remaining.
PriorityOrder ==
    Ranked(SameCatIdx) \o Ranked(FeaturedIdx \ SameCatIdx)
    \o Ranked(OtherIdx \ (SameCatIdx \cup FeaturedIdx))

ExpectedRelated ==
    [n \in 1..Min(K, Len(PriorityOrder)) |-> articles[PriorityOrder[n]]]

\* C15: related_for returns the first K records of the priority order (all
\* of them when there are fewer), none of them twice, and the wrapper shows
\* the placeholder item exactly when there is none, else one link per
\* record in that order.
C15_RelatedRanking ==
    outcome = "related" =>
        /\ rel = ExpectedRelated
        /\ \A i, j \in 1..Len(rel) : i # j => rel[i] # rel[j]
        /\ rel = <<>> => (NO_RELATED \in Range(html) /\ RELATED_LINKS \notin Range(html))
        /\ rel # <<>> =>
              /\ RELATED_LINKS \in Range(html) /\ NO_RELATED \notin Range(html)
              /\ Len(links) = Len(rel)
              /\ \A i \in 1..Len(rel) : links[i][1] = escape_html_points(rel[i].url)

\* K recommendations: a same-category record, then a featured record of
\* another category, while a remaining record has a better rank than both.
C15_Witness ==
    /\ outcome = "related"
    /\ Len(rel) = K
    /\ category_or_other(rel[1]) = page_category(path, articles)
    /\ category_or_other(rel[K]) # page_category(path, articles)
    /\ is_featured(rel[K])
    /\ \E i \in OtherIdx \ (SameCatIdx \cup FeaturedIdx) : _rank(articles[i]) < _rank(rel[1])

\* No other record: the placeholder is shown.
C15_WitnessEmpty ==
    /\ outcome = "related"
    /\ Len(articles) = 1 /\ articles[1].url = path
    /\ rel = <<>>
    /\ NO_RELATED \in Range(html)

----------------------------------------------------------------------------
(* Claims about the truncation of expand_bank.                             *)

\* The merged Bank after the safety dedupe: the loaded entries that are
\* the first of their lower-cased file name, in the file's order, followed
\* by the call's new entries in the order they were accepted.
FirstsOfLoaded ==
    [n \in 1..FirstsUpTo(loaded, Len(loaded)) |->
        loaded[CHOOSE i \in 1..Len(loaded) :
                  FirstOfItsName(loaded, i) /\ FirstsUpTo(loaded, i) = n]]

MergedBank == FirstsOfLoaded \o newItems

Exceeds == result = "ok" /\ Len(MergedBank) > MAX_BANK_SIZE

\* x comes strictly before y by (rank, category), whatever their file
\* names.
StrictlyBefore(x, y) == LexLess(RankCategoryKey(x), RankCategoryKey(y))

\* The original statement of C16: when the merged Bank exceeds the cap, no
\* dropped entry comes before a kept one by (rank, category, filename).
C16_SortedOriginal ==
    Exceeds =>
        \A d \in Range(MergedBank) \ Range(persisted) : \A k \in Range(persisted) :
            ~StrictlyBefore(d, k)

\* C16 (amended): the persisted Bank is the merged Bank cut to its first
\* MAX_BANK_SIZE entries in list order: loaded entries first, in the
\* file's order, then new entries in the order accepted; nothing is sorted.
C16_TruncationKeepsHead ==
    result = "ok" =>
        persisted = SubSeq(MergedBank, 1, Min(MAX_BANK_SIZE, Len(MergedBank)))

\* A truncating call that dropped an entry which (rank, category) puts
\* before a kept one.
C16_Witness ==
    /\ Exceeds
    /\ Len(persisted) = MAX_BANK_SIZE
    /\ \E d \in Range(MergedBank) \ Range(persisted) : \E k \in Range(persisted) :
          StrictlyBefore(d, k)

----------------------------------------------------------------------------
(* Claims about the recovery of wrapped content.                           *)

\* The run wraps, for the first time, a page that has a body.
FirstWrap ==
    /\ passes = 0
    /\ outcome' = "ok"
    /\ path \notin EXCLUDE
    /\ HasBody(html)
    /\ WRAP_MARKER_START \notin Range(extract_body_inner(html))

\* What the next run would recover from the page a run has written.
Recovered(h) == extract_existing_main(extract_body_inner(h))

\* C17: whatever the body content, the content region of the page a first
\* run writes is recovered by extract_existing_main as exactly the original
\* inner content.
C17_ContentRoundTrip ==
    [][FirstWrap => Recovered(html') = <<extract_body_inner(html)>>]_vars

\* A content on one line, without a backslash escape and without a </main>
\* of its own.
PlainContent(c) ==
    Range(c) \cap {"\n", BACKSLASH_N, BACKSLASH_D, MAIN_CLOSE} = {}

\* C17, the case of the specification's scenario: plain content is
\* recovered exactly.
C17_PlainContentRoundTrip ==
    [][(FirstWrap /\ PlainContent(extract_body_inner(html)))
          => Recovered(html') = <<extract_body_inner(html)>>]_vars

\* The scenario's page after its first run: the content region holds
\* <h1>Title</h1><p>X</p>.
C17_ScenarioReached ==
    /\ outcome = "ok" /\ passes = 1 /\ path \notin EXCLUDE
    /\ Recovered(html) = << <<"<h1>", "Title", "</h1>", "<p>", "X", "</p>">> >>

====
